---- MODULE Spec2Model ----
(***************************************************************************)
(* The Perceptron class of posts/perceptron-blog-post/perceptron.py as a   *)
(* state machine: the object's attributes (w, history), the position of a  *)
(* running fit call and its locals, and the outcome of the last call.      *)
(*                                                                         *)
(* Numbers.  Features and labels are integers.  Weights are kept as        *)
(* integers in units of 1/WScale, so the draw of np.random.rand is a value *)
(* of WDraws/WScale in [0,1) and adding a feature x to a weight adds       *)
(* WScale*x units.  A dot product of a weight vector with an integer row   *)
(* is then an integer in the same units, and its sign is exact.  A score   *)
(* is the rational <<num, den>>.                                           *)
(***************************************************************************)
EXTENDS Integers, Sequences, FiniteSets, TLC

\* ---------------------------------------------------------------- bounds
MaxRows == 2
MaxSteps == 2
WScale == 2
SepRange == 3

\* the column counts p of the training data
ColCounts == {1, 2}

\* feature values, and the numerators of the initial random weights
Vals == {0, 1}
WDraws == {0, 1}

Matrices(n, p) == [1..n -> [1..p -> Vals]]
Labels(n) == [1..n -> {0, 1}]
Weights(p) == [1..p -> WDraws]

\* ------------------------------------------------------- numpy primitives
\* X.shape[0], X.shape[1]
Rows(X) == Len(X)
Cols(X) == Len(X[1])

RECURSIVE DotFrom(_, _, _)
DotFrom(a, b, j) == IF j > Len(a) THEN 0 ELSE a[j] * b[j] + DotFrom(a, b, j + 1)
\* np.dot of two vectors of the same length
Dot(a, b) == DotFrom(a, b, 1)

\* np.sign: -1, 0 or 1
Sign(v) == IF v < 0 THEN -1 ELSE IF v = 0 THEN 0 ELSE 1

\* np.append(X, np.ones((X.shape[0], 1)), 1)
Augment(X) == [r \in 1..Rows(X) |-> Append(X[r], 1)]

\* y_ = 2*y-1
Shift(y) == [r \in 1..Len(y) |-> 2 * y[r] - 1]

\* np.dot(X, w) of a matrix with a vector, row by row
Activations(X, wv) == [r \in 1..Rows(X) |-> Dot(X[r], wv)]

\* --------------------------------------------------------------- methods
\* a sign function with sign(0) = +1 instead of np.sign's 0
ValidationRowZeroPositive(row, wv) == IF Dot(row, wv) < 0 THEN -1 ELSE 1

\* Perceptron.validation on a single row
ValidationRow(row, wv) == Sign(Dot(row, wv))

\* Perceptron.validation on a matrix
Validation(X, wv) == [r \in 1..Rows(X) |-> ValidationRow(X[r], wv)]

\* Perceptron.score: np.dot(self.validation(X_), y_) / X_.shape[0]
ScoreValue(X, y, wv) == <<Dot(Validation(Augment(X), wv), Shift(y)), Rows(X)>>

\* rounding the half up instead of flooring it
PredictLabelRoundUp(d) == (Sign(d) + 2) \div 2

\* the sign itself, without the shift to {0,1}
PredictLabelNoShift(d) == Sign(d)

\* (np.sign(d)+1)//2 for one entry d of np.dot(X, self.w)
PredictLabel(d) == (Sign(d) + 1) \div 2

\* the comparison of line 42 turned around: the update on a correct row
UpdateOnCorrect(wv, X, y, i) ==
    LET xi == Augment(X)[i]
        yi == Shift(y)[i]
        hit == IF yi * ValidationRow(xi, wv) > 0 THEN 1 ELSE 0
    IN  [j \in 1..Len(wv) |-> wv[j] + hit * yi * WScale * xi[j]]

\* no update at all
UpdateNever(wv, X, y, i) == wv

\* the update of line 42 for the drawn index i
Update(wv, X, y, i) ==
    LET xi == Augment(X)[i]
        yi == Shift(y)[i]
        hit == IF yi * ValidationRow(xi, wv) < 0 THEN 1 ELSE 0
    IN  [j \in 1..Len(wv) |-> wv[j] + hit * yi * WScale * xi[j]]

\* ----------------------------------------------------------------- state
VARIABLES
    defined,    \* the attributes set on self: {} or {"w", "history"}
    w,          \* self.w, <<>> while the attribute does not exist
    history,    \* self.history, <<>> while the attribute does not exist
    pc,         \* "idle", "loop" (inside fit's for loop) or "returned"
    X, y,       \* the training data the caller passes to fit
    max_steps,  \* the argument of the running (or last) fit
    k,          \* iterations of the for loop completed
    winit,      \* the value np.random.rand gave the running (or last) fit
    result      \* the outcome of the call that has just ended

vars == <<defined, w, history, pc, X, y, max_steps, k, winit, result>>

NoResult ==
    [op |-> "none", status |-> "none", cols |-> 0,
     dots |-> <<>>, labels |-> <<>>, value |-> <<>>]

Raised(op, err, Xa) ==
    [op |-> op, status |-> err, cols |-> Cols(Xa),
     dots |-> <<>>, labels |-> <<>>, value |-> <<>>]

\* a constructor that sets the attributes
InitWithAttributes ==
    /\ defined = {"w", "history"}
    /\ w = <<0, 0>>
    /\ history = <<>>
    /\ pc = "idle"
    /\ X = <<>>
    /\ y = <<>>
    /\ max_steps = 0
    /\ k = 0
    /\ winit = <<>>
    /\ result = NoResult

\* Perceptron.__init__: no attribute is set
Init ==
    /\ defined = {}
    /\ w = <<>>
    /\ history = <<>>
    /\ pc = "idle"
    /\ X = <<>>
    /\ y = <<>>
    /\ max_steps = 0
    /\ k = 0
    /\ winit = <<>>
    /\ result = NoResult

\* a fit that keeps the history of an earlier fit
FitEnterKeepHistory(Xa, ya, ms, w0) ==
    /\ defined' = {"w", "history"}
    /\ w' = w0
    /\ history' = history
    /\ pc' = "loop"
    /\ X' = Xa
    /\ y' = ya
    /\ max_steps' = ms
    /\ k' = 0
    /\ winit' = w0
    /\ result' = NoResult

\* fit, lines 28-33: X_ is built, w is drawn, history is emptied
FitEnter(Xa, ya, ms, w0) ==
    /\ defined' = {"w", "history"}
    /\ w' = w0
    /\ history' = <<>>
    /\ pc' = "loop"
    /\ X' = Xa
    /\ y' = ya
    /\ max_steps' = ms
    /\ k' = 0
    /\ winit' = w0
    /\ result' = NoResult

\* The caller fits the model to one dataset: the first fit takes any dataset,
\* a later fit the same data with a new max_steps and a new random draw.
Fit ==
    /\ pc = "idle"
    /\ \/ /\ X = <<>>
          /\ \E n \in 1..MaxRows, p \in ColCounts :
               \E Xa \in Matrices(n, p), ya \in Labels(n), ms \in 0..MaxSteps,
                  w0 \in Weights(p + 1) :
                   FitEnter(Xa, ya, ms, w0)
       \/ /\ X # <<>>
          /\ \E ms \in 0..MaxSteps, w0 \in Weights(Cols(X) + 1) :
               FitEnter(X, y, ms, w0)

\* an iteration that logs the score before it updates w
TrainStepScoreFirst(i) ==
    /\ pc = "loop"
    /\ k < max_steps
    /\ i \in 1..Rows(X)
    /\ w' = Update(w, X, y, i)
    /\ history' = Append(history, ScoreValue(X, y, w))
    /\ k' = k + 1
    /\ UNCHANGED <<defined, pc, X, y, max_steps, winit, result>>

\* one iteration of the for loop, lines 36-43, with i the drawn index
TrainStep(i) ==
    /\ pc = "loop"
    /\ k < max_steps
    /\ i \in 1..Rows(X)
    /\ w' = Update(w, X, y, i)
    /\ history' = Append(history, ScoreValue(X, y, w'))
    /\ k' = k + 1
    /\ UNCHANGED <<defined, pc, X, y, max_steps, winit, result>>

\* range(max_steps) is exhausted: fit returns None
FitReturn ==
    /\ pc = "loop"
    /\ k = max_steps
    /\ pc' = "returned"
    /\ result' = [NoResult EXCEPT !.op = "fit", !.status = "ok"]
    /\ UNCHANGED <<defined, w, history, X, y, max_steps, k, winit>>

\* score(Xs, ys) called from outside fit
ScoreOutcome(Xs, ys) ==
    IF "w" \notin defined THEN Raised("score", "AttributeError", Xs)
    ELSE IF Cols(Xs) + 1 # Len(w) THEN Raised("score", "ValueError", Xs)
    ELSE [op |-> "score", status |-> "ok", cols |-> Cols(Xs),
          dots |-> Activations(Augment(Xs), w), labels |-> <<>>,
          value |-> ScoreValue(Xs, ys, w)]

ScoreCall(Xs, ys) ==
    /\ result' = ScoreOutcome(Xs, ys)
    /\ pc' = "returned"
    /\ UNCHANGED <<defined, w, history, X, y, max_steps, k, winit>>

\* the caller scores the training data, or any single observation
Score ==
    /\ pc = "idle"
    /\ \/ /\ X # <<>>
          /\ ScoreCall(X, y)
       \/ \E p \in ColCounts :
            \E Xs \in Matrices(1, p), ys \in Labels(1) :
               ScoreCall(Xs, ys)

\* a predict that appends the bias column, as fit and score do
PredictOutcomeAugmenting(Xp) ==
    IF "w" \notin defined THEN Raised("predict", "AttributeError", Xp)
    ELSE IF Cols(Xp) + 1 # Len(w) THEN Raised("predict", "ValueError", Xp)
    ELSE LET d == Activations(Augment(Xp), w)
         IN  [op |-> "predict", status |-> "ok", cols |-> Cols(Xp),
              dots |-> d, labels |-> [r \in 1..Len(d) |-> PredictLabel(d[r])],
              value |-> <<>>]

\* predict(Xp): np.dot(X, self.w) on the matrix as given
PredictOutcome(Xp) ==
    IF "w" \notin defined THEN Raised("predict", "AttributeError", Xp)
    ELSE IF Cols(Xp) # Len(w) THEN Raised("predict", "ValueError", Xp)
    ELSE LET d == Activations(Xp, w)
         IN  [op |-> "predict", status |-> "ok", cols |-> Cols(Xp),
              dots |-> d, labels |-> [r \in 1..Len(d) |-> PredictLabel(d[r])],
              value |-> <<>>]

\* the caller predicts on one observation of p or p+1 columns
Predict ==
    /\ pc = "idle"
    /\ \E p \in ColCounts \cup {c + 1 : c \in ColCounts} :
         \E Xp \in Matrices(1, p) :
            /\ result' = PredictOutcome(Xp)
            /\ pc' = "returned"
    /\ UNCHANGED <<defined, w, history, X, y, max_steps, k, winit>>

\* the caller has read the outcome and goes on
Resume ==
    /\ pc = "returned"
    /\ pc' = "idle"
    /\ result' = NoResult
    /\ UNCHANGED <<defined, w, history, X, y, max_steps, k, winit>>

Next ==
    \/ Fit
    \/ \E i \in 1..MaxRows : TrainStep(i)
    \/ FitReturn
    \/ Score
    \/ Predict
    \/ Resume

Spec == Init /\ [][Next]_vars

\* ------------------------------------------------- a fit that never ends
\* The training loop with max_steps as large as needed: the loop does not
\* end, the iterations are not counted, and only the last entry of history
\* is kept.  The data are linearly separable with a margin.
Separable(Xa, ya) ==
    LET Xb == Augment(Xa)
        yb == Shift(ya)
        Separates(ws) == \A r \in 1..Rows(Xa) : yb[r] * Dot(Xb[r], ws) > 0
    IN  ~ \A ws \in [1..(Cols(Xa) + 1) -> (0 - SepRange)..SepRange] :
              ~Separates(ws)

FitForever ==
    /\ pc = "idle"
    /\ \E n \in 1..MaxRows, p \in ColCounts :
         \E Xa \in Matrices(n, p), ya \in Labels(n) :
            /\ Separable(Xa, ya)
            /\ \E w0 \in Weights(p + 1) :
                  /\ defined' = {"w", "history"}
                  /\ w' = w0
                  /\ history' = <<>>
                  /\ pc' = "loop"
                  /\ X' = Xa
                  /\ y' = ya
                  /\ winit' = w0
                  /\ UNCHANGED <<max_steps, k, result>>

TrainStepForever(i) ==
    /\ pc = "loop"
    /\ i \in 1..Rows(X)
    /\ w' = Update(w, X, y, i)
    /\ history' = <<ScoreValue(X, y, w')>>
    /\ UNCHANGED <<defined, pc, X, y, max_steps, k, winit, result>>

NextLive ==
    \/ FitForever
    \/ \E i \in 1..MaxRows : TrainStepForever(i)

\* every index is drawn again and again
SpecLive ==
    /\ Init
    /\ [][NextLive]_vars
    /\ \A i \in 1..MaxRows : WF_vars(TrainStepForever(i))

\* ---------------------------------------------------------------- claims
Last(h) == h[Len(h)]
InUnitInterval(v) == 0 <= v[1] /\ v[1] <= v[2]
\* the score <<num, den>> is 1
IsOne(v) == v[1] = v[2]
FitReturned == pc = "returned" /\ result.op = "fit"
PredictReturned == pc = "returned" /\ result.op = "predict" /\ result.status = "ok"
\* the training data have 2 columns, so w has 3 entries
FitOnTwoColumns == X # <<>> /\ Cols(X) = 2
\* y'_i * sign(w . X~_i) < 0 for row i of the training data
Misclassified(i) == Shift(y)[i] * Sign(Dot(Augment(X)[i], w)) < 0

\* C1: every value score returns, and every element of history in every
\* state during or after fit, lies in [0,1].
C1_ScoresInUnitInterval ==
    /\ \A j \in 1..Len(history) : InUnitInterval(history[j])
    /\ (pc = "returned" /\ result.op = "score" /\ result.status = "ok")
          => InUnitInterval(result.value)

\* C2 as stated: predict gives 0 for a negative dot product and 1 otherwise,
\* so a row whose dot product with w is zero gets label 1.
C2_ZeroGetsOne ==
    PredictReturned =>
        \A r \in 1..Len(result.dots) :
            result.labels[r] = IF result.dots[r] < 0 THEN 0 ELSE 1

\* C2 as amended: predict gives 1 for a positive dot product and 0
\* otherwise, so a row whose dot product with w is zero gets label 0.
C2_ZeroGetsZero ==
    PredictReturned =>
        \A r \in 1..Len(result.dots) :
            result.labels[r] = IF result.dots[r] > 0 THEN 1 ELSE 0

C2_Witness ==
    /\ PredictReturned
    /\ result.dots[1] = 0
    /\ result.labels[1] = 0
    /\ \E j \in 1..Len(w) : w[j] # 0

\* C3 as stated: after fit on 2 columns, predict with 3 columns fails with
\* a shape mismatch.
C3_ThreeColumnsFail ==
    (pc = "returned" /\ result.op = "predict" /\ FitOnTwoColumns /\ result.cols = 3)
        => result.status = "ValueError"

\* C3 as amended: after fit on 2 columns (w has 3 entries), predict with 3
\* columns succeeds with one label per row, predict with any other column
\* count (the 2 of the training data among them) fails with a shape
\* mismatch, and no predict call changes w or history.
C3_TrainingShapeFails ==
    [][(pc = "idle" /\ pc' = "returned" /\ result'.op = "predict" /\ FitOnTwoColumns)
          => /\ w' = w /\ history' = history /\ defined' = defined
             /\ result'.cols = 3 =>
                   result'.status = "ok" /\ Len(result'.labels) = 1
             /\ result'.cols # 3 => result'.status = "ValueError"]_vars

C3_Witness ==
    /\ pc = "returned" /\ result.op = "predict"
    /\ FitOnTwoColumns /\ result.cols = 3 /\ result.status = "ok"
    /\ history # <<>>

\* C4: in every training step with drawn index i, w becomes w + y'_i * X~_i
\* if row i is misclassified (y'_i * sign(w . X~_i) < 0) and stays as it is
\* otherwise; a step whose activation is exactly zero never changes w.
C4_UpdateRule ==
    [][\A i \in 1..MaxRows : TrainStep(i) =>
          /\ Misclassified(i) =>
                w' = [j \in 1..Len(w) |->
                        w[j] + Shift(y)[i] * WScale * Augment(X)[i][j]]
          /\ ~Misclassified(i) => w' = w
          /\ Dot(Augment(X)[i], w) = 0 => w' = w]_vars

\* one step has run on a single row of label 0 whose activation is zero
C4_Witness ==
    /\ pc = "loop" /\ k = 1
    /\ Rows(X) = 1 /\ y[1] = 0
    /\ Dot(Augment(X)[1], winit) = 0
    /\ w = winit

\* C5: when fit returns, history has exactly max_steps entries, whatever an
\* earlier fit left; with max_steps = 0, w is the initial draw and history
\* is empty.  No training step runs once max_steps steps have run.
C5_ExactlyMaxSteps ==
    /\ pc = "loop" => Len(history) = k /\ k <= max_steps
    /\ FitReturned =>
          /\ Len(history) = max_steps
          /\ max_steps = 0 => w = winit /\ history = <<>>

C5_Witness ==
    /\ FitReturned
    /\ max_steps = MaxSteps
    /\ Len(history) = MaxSteps
    /\ w # winit

\* C6: a model starts with no w and no history; score and predict on a
\* model that was never fitted fail with a missing-attribute error and
\* leave it so; only fit sets w, and then score and predict on an X of
\* compatible shape succeed.
C6_UnfitFails ==
    /\ defined = {} => w = <<>> /\ history = <<>>
    /\ defined # {} => X # <<>> /\ Len(w) = Cols(X) + 1
    /\ (pc = "returned" /\ result.op \in {"score", "predict"}) =>
          /\ defined = {} <=> result.status = "AttributeError"
          /\ (defined # {} /\ result.op = "score" /\ result.cols + 1 = Len(w))
                => result.status = "ok"
          /\ (defined # {} /\ result.op = "predict" /\ result.cols = Len(w))
                => result.status = "ok"

C6_Witness ==
    /\ pc = "returned" /\ result.op = "score"
    /\ result.status = "AttributeError"
    /\ defined = {}

\* C8: every element predict returns is 0 or 1, also for a row whose dot
\* product with w is zero.
C8_LabelsAreBinary ==
    PredictReturned => \A r \in 1..Len(result.labels) : result.labels[r] \in {0, 1}

C8_Witness ==
    /\ PredictReturned
    /\ result.dots[1] < 0
    /\ result.labels[1] = 0

\* C9: the entry a training step appends is score(X, y) on the whole
\* training data with the updated w; so the last element of history, during
\* and after fit, is the score of the training data under the current w.
C9_LastIsCurrentScore ==
    history # <<>> => Last(history) = ScoreValue(X, y, w)

\* fit has returned, its last step changed w and the score with it
C9_Witness ==
    /\ FitReturned
    /\ max_steps = 1
    /\ w # winit
    /\ Last(history) # ScoreValue(X, y, winit)

\* C10: once a training step leaves w with score(X, y) = 1, no later step
\* of the same fit changes w, and every later history entry is 1.
C10_PerfectIsAbsorbing ==
    [][(pc = "loop" /\ history # <<>> /\ IsOne(ScoreValue(X, y, w))
          /\ pc' = "loop" /\ k' = k + 1)
          => w' = w /\ IsOne(Last(history'))]_vars

\* a step reached the perfect score by an update, and a second step ran
C10_Witness ==
    /\ pc = "loop" /\ k = 2
    /\ IsOne(history[1]) /\ IsOne(history[2])
    /\ w # winit

\* no row of the training data is misclassified: no step changes w
Settled == pc = "loop" /\ \A i \in 1..Rows(X) : ~Misclassified(i)
Perfect == pc = "loop" /\ IsOne(ScoreValue(X, y, w))

\* C7 as stated: on separable data, with every index drawn again and
\* again, fit reaches a w whose score is 1, the last value of history.
C7_ReachesPerfectScore ==
    (pc = "loop") ~> (Perfect /\ history # <<>> /\ IsOne(Last(history)))

\* C7 as amended: on separable data, with every index drawn again and
\* again, fit reaches a w that misclassifies no row and stays there; the
\* score is then 1 only if no activation is exactly zero.
C7_Settles ==
    (pc = "loop") ~> [](Settled /\ (Perfect <=> \A i \in 1..Rows(X) :
                                        Dot(Augment(X)[i], w) # 0))

\* from a draw without a zero, the run has settled after an update on a w
\* whose score is below 1
C7_Witness ==
    /\ Settled
    /\ ~Perfect
    /\ \A j \in 1..Len(winit) : winit[j] # 0
    /\ w # winit
    /\ history # <<>>

====
